---- MODULE Spec2Model ----
(***************************************************************************)
(* DeepTrust: the DeepTrustVerification ledger contract                    *)
(* (scripts/deploy.cjs), the pipeline's status tier (server/aiService.js)  *)
(* the POST /api/verify handler with its in-memory list, and the AI and    *)
(* pinning adapters (server/server.js, server/aiService.js).               *)
(***************************************************************************)
EXTENDS Integers, Sequences, FiniteSets, TLC

VARIABLES
    verifications,        \* Verification[] public verifications
    contentHistory,       \* mapping(string => uint256[]) contentHistory
    owner,                \* address public owner
    authorizedVerifiers,  \* mapping(address => bool) authorizedVerifiers
    blockTimestamp,       \* block.timestamp of the block being executed
    lastTx,               \* the last transaction sent to the contract and its outcome
    probe,                \* one score taken through determineStatus and the ledger
    verificationDb,       \* const verificationDb = []
    requests,             \* the POST /api/verify requests and where each stands
    clock,                \* Date.now()
    env,                  \* process.env: PRIVATE_KEY and CONTRACT_ADDRESS, set or not
    contractWithSigner,   \* blockchain.js: let contractWithSigner (set or null)
    ai,                   \* one analyzeImage call
    pin,                  \* the uploadMetadata calls
    parse,                \* one parseClassificationResults call
    trust,                \* one calculateTrustScore call
    upload,               \* one processUploadedFile call
    reader,               \* blockchain.js: let contract, and the last ledger read
    ui                    \* VerificationDemo: the component's state and its requests

ledgerVars == <<verifications, contentHistory, owner, authorizedVerifiers>>
chainVars  == <<verifications, contentHistory, owner, authorizedVerifiers, blockTimestamp, lastTx>>
serverVars == <<verificationDb, requests, clock, env, contractWithSigner>>
clientVars == <<trust, upload, reader, ui>>
adapterVars == <<ai, pin, parse, trust, upload, reader, ui>>
vars == <<verifications, contentHistory, owner, authorizedVerifiers, blockTimestamp,
          lastTx, probe, verificationDb, requests, clock, env, contractWithSigner,
          ai, pin, parse, trust, upload, reader, ui>>

(***************************************************************************)
(* Bounds                                                                  *)
(***************************************************************************)
MaxEntries == 3

\* the block timestamps the chain goes through
BlockTimes == {1, 2}

Addresses == {"a1", "a2", "a3"}
Deployer == "a1"

\* the addresses the owner is asked to add or remove
Targets == {"a1", "a2"}
Hashes == {"h1", "h2"}
MetaHashes == {"Qm1"}

\* require(_trustScore <= 100, ...)
MaxTrustScore == 100

\* the scores the ledger transactions are tried with: both sides of the require
LedgerScores == {MaxTrustScore, MaxTrustScore + 1}

(***************************************************************************)
(* Status tier                                                             *)
(***************************************************************************)
\* enum VerificationStatus { Verified, Suspicious, Fake }
Verified == 0
Suspicious == 1
Fake == 2

\* blockchain.js: const VerificationStatus = {0: 'verified', 1: 'suspicious', 2: 'fake'}
VerificationStatus == [e \in {Verified, Suspicious, Fake} |->
    IF e = Verified THEN "verified" ELSE IF e = Suspicious THEN "suspicious" ELSE "fake"]

determineStatus_strict(trustScore) ==
    IF trustScore > 80 THEN "verified"
    ELSE IF trustScore >= 50 THEN "suspicious"
    ELSE "fake"

\* aiService.js determineStatus
determineStatus(trustScore) ==
    IF trustScore >= 80 THEN "verified"
    ELSE IF trustScore >= 50 THEN "suspicious"
    ELSE "fake"

\* storeVerification, the if/else chain that sets `status`
statusOf(_trustScore) ==
    IF _trustScore >= 80 THEN Verified
    ELSE IF _trustScore >= 50 THEN Suspicious
    ELSE Fake

(***************************************************************************)
(* The contract                                                            *)
(***************************************************************************)
onlyVerifier_noOwner(sender) == authorizedVerifiers[sender]

onlyVerifier_anyone(sender) == TRUE

onlyOwner_orVerifier(sender) == sender = owner \/ authorizedVerifiers[sender]

\* modifier onlyOwner
onlyOwner(sender) == sender = owner

\* modifier onlyVerifier
onlyVerifier(sender) == authorizedVerifiers[sender] \/ sender = owner

scoreAllowed_any(_trustScore) == TRUE

\* require(_trustScore <= 100, "Score must be 0-100")
scoreAllowed(_trustScore) == _trustScore <= MaxTrustScore

\* Verification({id: newId, ...})
newVerification(newId, _contentHash, _trustScore, _aiMetadataHash, sender) ==
    [id             |-> newId,
     contentHash    |-> _contentHash,
     trustScore     |-> _trustScore,
     aiMetadataHash |-> _aiMetadataHash,
     timestamp      |-> blockTimestamp,
     status         |-> statusOf(_trustScore),
     verifier       |-> sender]

\* a transaction and its outcome; ret is <<>> when nothing is returned
Tx(fn, sender, score, reverted, ret) ==
    [fn |-> fn, sender |-> sender, score |-> score, reverted |-> reverted, ret |-> ret]

\* constructor
InitLedger ==
    /\ verifications = <<>>
    /\ contentHistory = [h \in Hashes |-> <<>>]
    /\ owner = Deployer
    /\ authorizedVerifiers = [a \in Addresses |-> a = owner]
    /\ blockTimestamp = 1
    /\ lastTx = Tx("constructor", Deployer, 0, FALSE, <<>>)

push_overwrite(array, x) ==
    IF array = <<>> THEN <<x>> ELSE [array EXCEPT ![Len(array)] = x]

\* array.push(x)
push(array, x) == Append(array, x)

nextId_plusOne == Len(verifications) + 1

\* uint256 newId = verifications.length
nextId == Len(verifications)

historyPush_front(_contentHash, newId) ==
    [contentHistory EXCEPT ![_contentHash] = <<newId>> \o @]

\* contentHistory[_contentHash].push(newId)
historyPush(_contentHash, newId) ==
    [contentHistory EXCEPT ![_contentHash] = push(@, newId)]

storeVerification(sender, _contentHash, _trustScore, _aiMetadataHash) ==
    IF onlyVerifier(sender) /\ scoreAllowed(_trustScore)
    THEN LET newId == nextId IN
         /\ Len(verifications) < MaxEntries
         /\ verifications' = push(verifications,
                newVerification(newId, _contentHash, _trustScore, _aiMetadataHash, sender))
         /\ contentHistory' = historyPush(_contentHash, newId)
         /\ lastTx' = Tx("storeVerification", sender, _trustScore, FALSE, <<newId>>)
         /\ UNCHANGED <<owner, authorizedVerifiers, blockTimestamp>>
    ELSE /\ lastTx' = Tx("storeVerification", sender, _trustScore, TRUE, <<>>)
         /\ UNCHANGED <<verifications, contentHistory, owner, authorizedVerifiers, blockTimestamp>>

\* an admin transaction, with the address it is about
AdminTx(fn, sender, _verifier, reverted) ==
    [fn |-> fn, sender |-> sender, score |-> 0, reverted |-> reverted, ret |-> <<>>,
     target |-> _verifier]

addVerifier_toggle(sender, _verifier) ==
    IF onlyOwner(sender)
    THEN /\ authorizedVerifiers' = [authorizedVerifiers EXCEPT ![_verifier] = ~@]
         /\ lastTx' = AdminTx("addVerifier", sender, _verifier, FALSE)
         /\ UNCHANGED <<verifications, contentHistory, owner, blockTimestamp>>
    ELSE /\ lastTx' = AdminTx("addVerifier", sender, _verifier, TRUE)
         /\ UNCHANGED <<verifications, contentHistory, owner, authorizedVerifiers, blockTimestamp>>

addVerifier(sender, _verifier) ==
    IF onlyOwner(sender)
    THEN /\ authorizedVerifiers' = [authorizedVerifiers EXCEPT ![_verifier] = TRUE]
         /\ lastTx' = AdminTx("addVerifier", sender, _verifier, FALSE)
         /\ UNCHANGED <<verifications, contentHistory, owner, blockTimestamp>>
    ELSE /\ lastTx' = AdminTx("addVerifier", sender, _verifier, TRUE)
         /\ UNCHANGED <<verifications, contentHistory, owner, authorizedVerifiers, blockTimestamp>>

removeVerifier_noEffect(sender, _verifier) ==
    IF onlyOwner(sender)
    THEN /\ lastTx' = AdminTx("removeVerifier", sender, _verifier, FALSE)
         /\ UNCHANGED <<verifications, contentHistory, owner, authorizedVerifiers, blockTimestamp>>
    ELSE /\ lastTx' = AdminTx("removeVerifier", sender, _verifier, TRUE)
         /\ UNCHANGED <<verifications, contentHistory, owner, authorizedVerifiers, blockTimestamp>>

removeVerifier(sender, _verifier) ==
    IF onlyOwner(sender)
    THEN /\ authorizedVerifiers' = [authorizedVerifiers EXCEPT ![_verifier] = FALSE]
         /\ lastTx' = AdminTx("removeVerifier", sender, _verifier, FALSE)
         /\ UNCHANGED <<verifications, contentHistory, owner, blockTimestamp>>
    ELSE /\ lastTx' = AdminTx("removeVerifier", sender, _verifier, TRUE)
         /\ UNCHANGED <<verifications, contentHistory, owner, authorizedVerifiers, blockTimestamp>>

\* the chain moves on to a later block
AdvanceBlock ==
    /\ blockTimestamp + 1 \in BlockTimes
    /\ blockTimestamp' = blockTimestamp + 1
    /\ UNCHANGED <<verifications, contentHistory, owner, authorizedVerifiers, lastTx>>

\* view functions: [reverted, value]
getVerificationCount == Len(verifications)

getVerification(_id) ==
    IF _id < Len(verifications)
    THEN [reverted |-> FALSE, value |-> <<verifications[_id + 1]>>]
    ELSE [reverted |-> TRUE, value |-> <<>>]

getContentHistory(_contentHash) == contentHistory[_contentHash]

\* a Verification whose every field has its zero value
defaultVerification ==
    [id |-> 0, contentHash |-> "", trustScore |-> 0, aiMetadataHash |-> "",
     timestamp |-> 0, status |-> Verified, verifier |-> ""]

getLatestVerification_default(_contentHash) ==
    LET history == contentHistory[_contentHash] IN
    IF Len(history) > 0
    THEN [reverted |-> FALSE, value |-> <<verifications[history[Len(history)] + 1]>>]
    ELSE [reverted |-> FALSE, value |-> <<defaultVerification>>]

getLatestVerification(_contentHash) ==
    LET history == contentHistory[_contentHash] IN
    IF Len(history) > 0
    THEN [reverted |-> FALSE, value |-> <<verifications[history[Len(history)] + 1]>>]
    ELSE [reverted |-> TRUE, value |-> <<>>]

(***************************************************************************)
(* One score through the pipeline's status and then onto the ledger        *)
(***************************************************************************)
ProbeIdle == probe = [pc |-> "idle", score |-> 0, status |-> ""]

\* analyzeImage: const status = determineStatus(trustScore.score)
Classify ==
    /\ probe.pc = "scored"
    /\ probe' = [probe EXCEPT !.pc = "classified", !.status = determineStatus(probe.score)]
    /\ UNCHANGED chainVars

\* anchorVerification: contractWithSigner.storeVerification(contentHash, trustScore, ...)
Anchor ==
    /\ probe.pc = "classified"
    /\ \E sender \in Addresses, h \in Hashes, m \in MetaHashes :
          storeVerification(sender, h, probe.score, m)
    /\ probe' = [probe EXCEPT !.pc = "anchored"]

(***************************************************************************)
(* POST /api/verify and the in-memory list                                 *)
(***************************************************************************)
NumRequests == 2

\* the readings Date.now() goes through
ClockReadings == {1, 2}

Requests == 1..NumRequests

\* req.body: NoBody stands for an undefined req.body, "" for a body
\* without contentHash
NoBody == "undefined"
BodyHashes == {NoBody, "", "h1"}

\* the values Math.floor(Math.random() * 30) is tried with
RandomDraws == {10, 29}

\* CONFIG.maxRetries
maxRetries == 3

\* the address of new ethers.Wallet(process.env.PRIVATE_KEY)
serverWallet == Deployer

\* const mockTrustScore = Math.floor(Math.random() * 30) + 70
mockTrustScore(draw) == draw + 70

\* const mockAiHash = "QmX..." + Math.random().toString(36).substring(7):
\* a fresh random suffix for every request
mockAiHash(r) == <<"QmX...", r>>

\* CONFIG.retryDelay of blockchain.js
anchorRetryDelay == 2000

\* attempt is anchorVerification's loop variable, submitted the transactions
\* it has sent, failed its attempts that threw, slept the sleeps it has begun
NewRequest ==
    [pc |-> "new", contentHash |-> "", mockTrustScore |-> 0, attempt |-> 0,
     submitted |-> 0, failed |-> 0, slept |-> <<>>, bcError |-> FALSE,
     response |-> <<>>]

\* process.env.PRIVATE_KEY && process.env.CONTRACT_ADDRESS
isConfigured == env.PRIVATE_KEY /\ env.CONTRACT_ADDRESS

\* initializeConnection: the signer exists only with both settings, and not
\* when the wallet or the provider could not be built
InitServer ==
    /\ verificationDb = <<>>
    /\ requests = [r \in Requests |-> NewRequest]
    /\ clock = 1
    /\ env \in [PRIVATE_KEY : BOOLEAN, CONTRACT_ADDRESS : BOOLEAN]
    /\ contractWithSigner \in BOOLEAN
    /\ contractWithSigner => isConfigured

ServerIdle ==
    /\ InitServer
    /\ env = [PRIVATE_KEY |-> FALSE, CONTRACT_ADDRESS |-> FALSE]

\* the handler's own tier: mockTrustScore > 80 ? "verified" : "suspicious"
handlerStatus(score) == IF score > 80 THEN "verified" ELSE "suspicious"

\* the record the handler builds at "3. RETURN RESULT"
resultOf(req, blockchainResult) ==
    [id              |-> <<"dt_", clock>>,
     trustScore      |-> req.mockTrustScore,
     status          |-> handlerStatus(req.mockTrustScore),
     blockchainProof |-> blockchainResult,
     analysis        |-> "mockAiMetadata",
     timestamp       |-> <<"iso", clock>>]

Complete_pushThenFail(r, req, blockchainResult) ==
    /\ verificationDb' = Append(verificationDb, resultOf(req, blockchainResult))
    /\ requests' = [requests EXCEPT ![r] = [req EXCEPT !.pc = "done",
           !.response = <<[code |-> 500, body |-> [error |-> "Internal server error"]]>>]]

Complete_dedupe(r, req, blockchainResult) ==
    LET result == resultOf(req, blockchainResult) IN
    /\ verificationDb' =
          IF \E i \in 1..Len(verificationDb) : verificationDb[i].id = result.id
          THEN verificationDb
          ELSE Append(verificationDb, result)
    /\ requests' = [requests EXCEPT ![r] =
           [req EXCEPT !.pc = "done", !.response = <<[code |-> 200, body |-> result]>>]]

\* 3. RETURN RESULT: build the record, push it, answer with it
Complete(r, req, blockchainResult) ==
    LET result == resultOf(req, blockchainResult) IN
    /\ verificationDb' = Append(verificationDb, result)
    /\ requests' = [requests EXCEPT ![r] =
           [req EXCEPT !.pc = "done", !.response = <<[code |-> 200, body |-> result]>>]]

\* catch (bcError): blockchainResult = { error: ... }, then the handler goes on
CatchBcError(r, req) ==
    Complete(r, [req EXCEPT !.bcError = TRUE],
             [error |-> "Blockchain write failed, but AI complete"])

\* the handler from its start to its first await, or to its end when
\* there is none
Verify(r, contentHash, draw) ==
    /\ requests[r].pc = "new"
    /\ IF contentHash = NoBody
       THEN \* destructuring an undefined req.body throws: the outer catch
            /\ requests' = [requests EXCEPT ![r] = [@ EXCEPT !.pc = "done",
                   !.response = <<[code |-> 500, body |-> [error |-> "Internal server error"]]>>]]
            /\ UNCHANGED verificationDb
       ELSE IF contentHash = ""
       THEN /\ requests' = [requests EXCEPT ![r] = [@ EXCEPT !.pc = "done",
                   !.response = <<[code |-> 400, body |-> [error |-> "Content hash required"]]>>]]
            /\ UNCHANGED verificationDb
       ELSE LET req == [requests[r] EXCEPT !.contentHash = contentHash,
                                          !.mockTrustScore = mockTrustScore(draw)]
            IN IF isConfigured
               THEN IF contractWithSigner
                    THEN /\ requests' = [requests EXCEPT ![r] =
                                [req EXCEPT !.pc = "anchoring", !.attempt = 1]]
                         /\ UNCHANGED verificationDb
                    ELSE \* anchorVerification throws 'Blockchain not configured'
                         CatchBcError(r, req)
               ELSE Complete(r, req, [txHash |-> "0xmock", blockNumber |-> 123456,
                                      status |-> "simulated"])
    /\ UNCHANGED <<clock, env, contractWithSigner, chainVars>>

\* anchorVerification: contractWithSigner.storeVerification(...) resolves: the
\* transaction is sent and the ledger executes it (the server's wallet is the
\* deployer, so it is accepted while the ledger has room)
AnchorSubmit(r) ==
    /\ requests[r].pc = "anchoring"
    /\ Len(verifications) < MaxEntries
    /\ storeVerification(serverWallet, requests[r].contentHash,
                         requests[r].mockTrustScore, mockAiHash(r))
    /\ requests' = [requests EXCEPT ![r] =
           [@ EXCEPT !.pc = "confirming", !.submitted = @ + 1]]
    /\ UNCHANGED <<verificationDb, clock, env, contractWithSigner>>

\* anchorVerification: tx.wait() resolves with the receipt; the handler
\* resumes with the proof
AnchorAttemptSucceeds(r) ==
    /\ requests[r].pc = "confirming"
    /\ Complete(r, requests[r], [success |-> TRUE, txHash |-> "0xreceipt"])
    /\ UNCHANGED <<clock, env, contractWithSigner, chainVars>>

AnchorAttemptFails_abort(r) ==
    /\ requests[r].pc \in {"anchoring", "confirming"}
    /\ IF requests[r].attempt < maxRetries
       THEN /\ requests' = [requests EXCEPT ![r] = [@ EXCEPT !.pc = "sleeping",
                   !.failed = @ + 1,
                   !.slept = Append(@, anchorRetryDelay * requests[r].attempt)]]
            /\ UNCHANGED verificationDb
       ELSE /\ requests' = [requests EXCEPT ![r] = [@ EXCEPT !.pc = "done", !.bcError = TRUE,
                   !.failed = @ + 1,
                   !.response = <<[code |-> 500, body |-> [error |-> "Internal server error"]]>>]]
            /\ UNCHANGED verificationDb
    /\ UNCHANGED <<clock, env, contractWithSigner, chainVars>>

\* anchorVerification: sending the transaction or waiting for it fails;
\* sleep before the next attempt, or after the last attempt throw, which
\* the handler catches
AnchorAttemptFails(r) ==
    /\ requests[r].pc \in {"anchoring", "confirming"}
    /\ IF requests[r].attempt < maxRetries
       THEN /\ requests' = [requests EXCEPT ![r] = [@ EXCEPT !.pc = "sleeping",
                   !.failed = @ + 1,
                   !.slept = Append(@, anchorRetryDelay * requests[r].attempt)]]
            /\ UNCHANGED verificationDb
       ELSE CatchBcError(r, [requests[r] EXCEPT !.failed = @ + 1])
    /\ UNCHANGED <<clock, env, contractWithSigner, chainVars>>

AnchorRetry_skip(r) ==
    /\ requests[r].pc = "sleeping"
    /\ requests' = [requests EXCEPT ![r] = [@ EXCEPT !.pc = "anchoring", !.attempt = @ + 2]]
    /\ UNCHANGED <<verificationDb, clock, env, contractWithSigner, chainVars>>

\* anchorVerification: the sleep is over, the loop goes to its next attempt
AnchorRetry(r) ==
    /\ requests[r].pc = "sleeping"
    /\ requests' = [requests EXCEPT ![r] = [@ EXCEPT !.pc = "anchoring", !.attempt = @ + 1]]
    /\ UNCHANGED <<verificationDb, clock, env, contractWithSigner, chainVars>>

\* GET /api/history: res.json(verificationDb)
apiHistory == verificationDb

\* Date.now() moves on
Tick ==
    /\ clock + 1 \in ClockReadings
    /\ clock' = clock + 1
    /\ UNCHANGED <<verificationDb, requests, env, contractWithSigner, chainVars>>

(***************************************************************************)
(* The adapters                                                            *)
(***************************************************************************)
ClientsIdle ==
    /\ trust = <<>>
    /\ upload = <<>>
    /\ reader = <<>>
    /\ ui = <<>>

AdaptersIdle ==
    /\ ai = <<>>
    /\ pin = <<>>
    /\ parse = <<>>
    /\ ClientsIdle

\* Math.round(n / d) for n >= 0, d > 0
roundDiv(n, d) == (2 * n + d) \div (2 * d)

Abs(x) == IF x < 0 THEN 0 - x ELSE x
Max(x, y) == IF x >= y THEN x ELSE y
Min(x, y) == IF x <= y THEN x ELSE y

(***************************************************************************)
(* The AI adapter: parseClassificationResults                              *)
(* There are two copies of it, the one of server/aiService.js and the      *)
(* one bundled in server/server.js. Scores are thousandths, returned       *)
(* probabilities are hundredths (the code rounds them to two decimals).    *)
(***************************************************************************)
MaxResults == 2

AIVariants == {"aiService", "server"}

\* the labels of a response, and the keywords label.toLowerCase() includes
Labels == {"artificial", "human", "photo", "cat"}

keywordsIn(label) ==
    CASE label = "artificial" -> {"artificial"}
      [] label = "human" -> {"human"}
      [] label = "photo" -> {"photo"}
      [] OTHER -> {}

\* the scores of a response: binary fractions, which the code's floating
\* point arithmetic carries exactly
Scores == {0, 125, 500, 875, 1000}

ClassifierResults == [label : Labels, score : Scores]

\* the lists of at most n results
RECURSIVE ResultLists(_)
ResultLists(n) ==
    IF n = 0 THEN {<<>>}
    ELSE LET shorter == ResultLists(n - 1) IN
         shorter \cup {Append(l, x) : l \in {q \in shorter : Len(q) = n - 1},
                                      x \in ClassifierResults}

aiKeywords(variant) ==
    {"artificial", "ai", "fake", "generated"} \cup
        (IF variant = "server" THEN {"synthetic"} ELSE {})

realKeywords(variant) ==
    {"human", "real", "authentic", "natural"} \cup
        (IF variant = "server" THEN {"photo"} ELSE {})

\* for (const result of results) { ... Math.max ... }
RECURSIVE scanResults(_, _, _, _)
scanResults(variant, results, aiScore, realScore) ==
    IF results = <<>> THEN <<aiScore, realScore>>
    ELSE LET result == Head(results) IN
         IF keywordsIn(result.label) \cap aiKeywords(variant) # {}
         THEN scanResults(variant, Tail(results), Max(aiScore, result.score), realScore)
         ELSE IF keywordsIn(result.label) \cap realKeywords(variant) # {}
         THEN scanResults(variant, Tail(results), aiScore, Max(realScore, result.score))
         ELSE scanResults(variant, Tail(results), aiScore, realScore)

\* results[i].score || 0.5
scoreOrHalf(score) == IF score # 0 THEN score ELSE 500

parseClassificationResults(variant, results, modelUsed) ==
    LET scanned == scanResults(variant, results, 0, 0)
        \* server.js only: labels not identified, use the first two results
        firstTwo == variant = "server" /\ scanned = <<0, 0>> /\ Len(results) >= 2
        ai0 == IF firstTwo THEN scoreOrHalf(results[1].score) ELSE scanned[1]
        real0 == IF firstTwo THEN scoreOrHalf(results[2].score) ELSE scanned[2]
        total == ai0 + real0
        \* if (total > 0 && Math.abs(total - 1) > 0.01): divide both by total
        scale == IF total > 0 /\ Abs(total - 1000) > 10 THEN total ELSE 1000
        \* if only one score was found, the other is 1 minus it
        aiScore == IF real0 > 0 /\ ai0 = 0 THEN scale - real0 ELSE ai0
        realScore == IF ai0 > 0 /\ real0 = 0 THEN scale - ai0 ELSE real0
    IN [aiProbability   |-> roundDiv(aiScore * 100, scale),
        realProbability |-> roundDiv(realScore * 100, scale),
        modelUsed       |-> modelUsed]

\* calculateTrustScore with the signed difference in place of Math.abs
calculateTrustScore_signed(analysis) ==
    [score       |-> analysis.realProbability,
     confidence  |-> roundDiv(100 + (analysis.aiProbability - analysis.realProbability), 2),
     isAIGenerated |-> analysis.aiProbability > 50]

\* calculateTrustScore, on probabilities in hundredths
calculateTrustScore(analysis) ==
    [score       |-> analysis.realProbability,
     confidence  |-> roundDiv(100 + Abs(analysis.aiProbability - analysis.realProbability), 2),
     isAIGenerated |-> analysis.aiProbability > 50]

\* the probabilities p of [0,1] that two decimals can write, in hundredths
Probabilities == 0..100

\* one analysis (ai = p, real = 1 - p), scored as it stands and with its two
\* probabilities swapped
InitTrust ==
    \E p \in Probabilities :
        trust = [p |-> p, asGiven |-> <<>>, swapped |-> <<>>]

AnalysisOf(p, order) ==
    IF order = "asGiven"
    THEN [aiProbability |-> p, realProbability |-> 100 - p]
    ELSE [aiProbability |-> 100 - p, realProbability |-> p]

Score(order) ==
    /\ trust[order] = <<>>
    /\ trust' = [trust EXCEPT
           ![order] = <<[analysis   |-> AnalysisOf(trust.p, order),
                         trustScore |-> calculateTrustScore(AnalysisOf(trust.p, order))]>>]
    /\ UNCHANGED <<ai, pin, parse, upload, reader, ui>>

(***************************************************************************)
(* server/fileService.js: validateFile and processUploadedFile.  A buffer  *)
(* is its length and the type its magic bytes denote; null is <<>> and a   *)
(* value v is <<v>>.                                                       *)
(***************************************************************************)
maxFileSize == 52428800

allowedMimeTypes ==
    {"image/jpeg", "image/png", "image/gif", "image/webp", "video/mp4",
     "video/webm", "audio/mpeg", "audio/wav", "audio/mp3"}

\* buffer lengths on both sides of the limit
BufferLengths == {0, 1024, maxFileSize - 1, maxFileSize, maxFileSize + 1, 2 * maxFileSize}

\* what the magic bytes denote: nothing, two allowed types, a type not allowed
Contents == {"", "image/png", "video/mp4", "application/pdf"}

\* the MIME type of the upload header, "" when there is none
DeclaredTypes == {"", "image/png", "application/pdf"}

Buffers == [length : BufferLengths, content : Contents]

\* fileTypeFromBuffer: undefined when the magic bytes are of no known type
fileTypeFromBuffer(buffer) ==
    IF buffer.content = "" THEN <<>> ELSE <<[mime |-> buffer.content]>>

\* validateFile without its size check
validateFile_noSizeCheck(buffer, originalMimeType) ==
    LET detectedType == fileTypeFromBuffer(buffer)
    IN IF detectedType = <<>>
       THEN [valid |-> FALSE, detectedType |-> <<>>, sniffed |-> 1,
             error |-> <<"Could not determine file type from content">>]
       ELSE IF detectedType[1].mime \notin allowedMimeTypes
       THEN [valid |-> FALSE, detectedType |-> detectedType, sniffed |-> 1,
             error |-> <<"File type is not allowed">>]
       ELSE [valid |-> TRUE, detectedType |-> detectedType, sniffed |-> 1,
             error |-> <<>>]

\* validateFile; sniffed counts its calls of fileTypeFromBuffer
validateFile(buffer, originalMimeType) ==
    IF buffer.length > maxFileSize
    THEN [valid |-> FALSE, detectedType |-> <<>>, sniffed |-> 0,
          error |-> <<"File too large">>]
    ELSE LET detectedType == fileTypeFromBuffer(buffer)
         IN IF detectedType = <<>>
            THEN [valid |-> FALSE, detectedType |-> <<>>, sniffed |-> 1,
                  error |-> <<"Could not determine file type from content">>]
            ELSE IF detectedType[1].mime \notin allowedMimeTypes
            THEN [valid |-> FALSE, detectedType |-> detectedType, sniffed |-> 1,
                  error |-> <<"File type is not allowed">>]
            ELSE [valid |-> TRUE, detectedType |-> detectedType, sniffed |-> 1,
                  error |-> <<>>]

\* hashContent: the digest of a buffer is a function of its bytes alone
hashContent(buffer) == [sha256 |-> buffer]

\* one call processUploadedFile(buffer, originalMimeType, {saveFile})
InitUpload ==
    \E buffer \in Buffers, originalMimeType \in DeclaredTypes, saveFile \in BOOLEAN :
        upload = [buffer |-> buffer, originalMimeType |-> originalMimeType,
                  saveFile |-> saveFile, settled |-> "pending", result |-> <<>>,
                  sniffed |-> 0, hashed |-> 0, written |-> 0]

\* processUploadedFile; writeOk is whether fs.writeFile of saveTemporaryFile
\* succeeds (the call rejects when it does not)
ProcessUploadedFile(writeOk) ==
    /\ upload.settled = "pending"
    /\ LET validation == validateFile(upload.buffer, upload.originalMimeType)
           contentHash == hashContent(upload.buffer)
       IN IF ~validation.valid
          THEN upload' = [upload EXCEPT
                   !.settled = "resolved",
                   !.sniffed = validation.sniffed,
                   !.result = <<[success |-> FALSE, contentHash |-> <<>>,
                                 filePath |-> <<>>, fileType |-> <<>>,
                                 error |-> validation.error]>>]
          ELSE IF upload.saveFile /\ ~writeOk
          THEN upload' = [upload EXCEPT
                   !.settled = "rejected",
                   !.sniffed = validation.sniffed,
                   !.hashed = 1]
          ELSE upload' = [upload EXCEPT
                   !.settled = "resolved",
                   !.sniffed = validation.sniffed,
                   !.hashed = 1,
                   !.written = IF upload.saveFile THEN 1 ELSE 0,
                   !.result = <<[success |-> TRUE, contentHash |-> <<contentHash>>,
                                 filePath |-> IF upload.saveFile
                                              THEN <<[dir |-> "uploads", name |-> contentHash]>>
                                              ELSE <<>>,
                                 fileType |-> validation.detectedType,
                                 error |-> <<>>]>>]
    /\ UNCHANGED <<ai, pin, parse, trust, reader, ui>>

(***************************************************************************)
(* server/blockchain.js: the read path, getVerificationById and            *)
(* getVerificationByHash.  null is <<>> and a record v is <<v>>.           *)
(***************************************************************************)
\* the ids asked for: those the ledger can hold and one beyond
ReadIds == 0..MaxEntries

\* the object built from the contract's answer
toRecord(result) ==
    [id             |-> result.id,
     contentHash    |-> result.contentHash,
     trustScore     |-> result.trustScore,
     aiMetadataHash |-> result.aiMetadataHash,
     timestamp      |-> result.timestamp,
     status         |-> IF result.status \in DOMAIN VerificationStatus
                        THEN VerificationStatus[result.status] ELSE "unknown",
     verifier       |-> result.verifier]

\* one read: fn(arg), whether the RPC query went through, what the view
\* function answered, how the promise settled and with what
Read(fn, arg, queryOk, view, settled, value) ==
    [fn |-> fn, arg |-> arg, queryOk |-> queryOk, view |-> view,
     settled |-> settled, value |-> value]

\* try { if (!contract) throw ...; result = await contract.<view>(...);
\*       return {...} } catch (error) { return null }
readOutcome(fn, arg, queryOk, view) ==
    IF ~reader.contract \/ ~queryOk \/ view.reverted
    THEN Read(fn, arg, queryOk, view, "resolved", <<>>)
    ELSE Read(fn, arg, queryOk, view, "resolved", <<toRecord(view.value[1])>>)

\* the contract is set by initializeConnection when CONTRACT_ADDRESS and the
\* artifact are there, and stays null otherwise
InitReader ==
    \E contract \in BOOLEAN : reader = [contract |-> contract, last |-> <<>>]

\* getVerificationById without its try/catch
GetVerificationById_uncaught(id, queryOk) ==
    /\ reader' = [reader EXCEPT !.last =
           LET view == getVerification(id)
           IN IF ~reader.contract \/ ~queryOk \/ view.reverted
              THEN <<Read("getVerificationById", id, queryOk, view, "rejected", <<>>)>>
              ELSE <<Read("getVerificationById", id, queryOk, view, "resolved",
                          <<toRecord(view.value[1])>>)>>]
    /\ UNCHANGED <<ai, pin, parse, trust, upload, ui>>

GetVerificationById(id, queryOk) ==
    /\ reader' = [reader EXCEPT !.last =
           <<readOutcome("getVerificationById", id, queryOk, getVerification(id))>>]
    /\ UNCHANGED <<ai, pin, parse, trust, upload, ui>>

GetVerificationByHash(contentHash, queryOk) ==
    /\ reader' = [reader EXCEPT !.last =
           <<readOutcome("getVerificationByHash", contentHash, queryOk,
                         getLatestVerification(contentHash))>>]
    /\ UNCHANGED <<ai, pin, parse, trust, upload, ui>>

(***************************************************************************)
(* src/components/VerificationDemo.tsx: the component's state and the      *)
(* startVerification calls under way.  null is <<>>.                       *)
(***************************************************************************)
\* how many times Start Verification is pressed
MaxRuns == 2

\* the files offered to handleFileSelect: two it accepts, one of a type it
\* refuses and one over its size limit
OfferedFiles ==
    {[name |-> "a.png", type |-> "image/png",       size |-> 1024],
     [name |-> "b.jpg", type |-> "image/jpeg",      size |-> 2048],
     [name |-> "c.pdf", type |-> "application/pdf", size |-> 1024],
     [name |-> "d.png", type |-> "image/png",       size |-> maxFileSize + 1]}

validTypes == {"image/jpeg", "image/png", "image/gif", "image/webp"}

InitUI ==
    ui = [selectedFile |-> <<>>, status |-> "idle", result |-> <<>>,
          error |-> <<>>, runs |-> <<>>]

\* handleFileSelect; the drop zone and its file input are rendered only
\* while no file is selected
HandleFileSelect(file) ==
    /\ ui.selectedFile = <<>>
    /\ IF file.type \notin validTypes \/ file.size > maxFileSize
       THEN ui' = ui
       ELSE ui' = [ui EXCEPT !.selectedFile = <<file>>, !.result = <<>>,
                             !.error = <<>>, !.status = "idle"]
    /\ UNCHANGED <<ai, pin, parse, trust, upload, reader>>

\* clearFile; its button is rendered while a file is selected
ClearFile ==
    /\ ui.selectedFile # <<>>
    /\ ui' = [ui EXCEPT !.selectedFile = <<>>, !.result = <<>>,
                        !.error = <<>>, !.status = "idle"]
    /\ UNCHANGED <<ai, pin, parse, trust, upload, reader>>

\* disabled={!selectedFile || status === "uploading" || status === "analyzing"}
startDisabled ==
    ui.selectedFile = <<>> \/ ui.status = "uploading" \/ ui.status = "analyzing"

\* startVerification up to its first await; the call keeps the file that was
\* selected when it began
StartVerification ==
    /\ ~startDisabled
    /\ Len(ui.runs) < MaxRuns
    /\ ui' = [ui EXCEPT !.status = "uploading", !.result = <<>>, !.error = <<>>,
                        !.runs = Append(@, [file |-> ui.selectedFile[1],
                                            pc |-> "uploading"])]
    /\ UNCHANGED <<ai, pin, parse, trust, upload, reader>>

\* the two 300 ms timers are over: setStatus("analyzing"), api.verifyFile
TimersElapse(i) ==
    /\ i \in DOMAIN ui.runs
    /\ ui.runs[i].pc = "uploading"
    /\ ui' = [ui EXCEPT !.status = "analyzing", !.runs[i].pc = "calling"]
    /\ UNCHANGED <<ai, pin, parse, trust, upload, reader>>

\* api.verifyFile resolves: the steps after it only move the progress bar
VerifyFileResolves(i) ==
    /\ i \in DOMAIN ui.runs
    /\ ui.runs[i].pc = "calling"
    /\ ui' = [ui EXCEPT !.runs[i].pc = "finishing"]
    /\ UNCHANGED <<ai, pin, parse, trust, upload, reader>>

\* api.verifyFile rejects: the catch block
VerifyFileRejects(i) ==
    /\ i \in DOMAIN ui.runs
    /\ ui.runs[i].pc = "calling"
    /\ ui' = [ui EXCEPT !.status = "error", !.error = <<"Verification failed">>,
                        !.runs[i].pc = "failed"]
    /\ UNCHANGED <<ai, pin, parse, trust, upload, reader>>

\* the last two timers are over: setResult(verificationResult),
\* setStatus("complete")
CompleteRun(i) ==
    /\ i \in DOMAIN ui.runs
    /\ ui.runs[i].pc = "finishing"
    /\ ui' = [ui EXCEPT !.status = "complete",
                        !.result = <<[of |-> ui.runs[i].file]>>,
                        !.runs[i].pc = "done"]
    /\ UNCHANGED <<ai, pin, parse, trust, upload, reader>>

\* the startVerification calls that have not yet completed
InFlight == {i \in DOMAIN ui.runs : ui.runs[i].pc \notin {"done", "failed"}}

\* one list, parsed by each copy
InitParse ==
    \E results \in ResultLists(MaxResults) :
        parse = [results |-> results, aiService |-> <<>>, server |-> <<>>]

Parse(variant) ==
    /\ parse[variant] = <<>>
    /\ parse' = [parse EXCEPT
           ![variant] = <<parseClassificationResults(variant, parse.results, "primaryModel")>>]
    /\ UNCHANGED <<ai, pin, clientVars>>

(***************************************************************************)
(* The AI adapter: analyzeImage and classifyWithRetry                      *)
(***************************************************************************)
\* CONFIG.maxRetries of the AI service
aiMaxRetries == 3

\* CONFIG.retryDelay
retryDelay(variant) == IF variant = "aiService" THEN 1000 ELSE 2000

\* the values of Math.random() tried, in thousandths
MockDraws == {0, 500, 999}

\* what a remote classification resolves with; NotAnArray is a response that
\* is not a list
NotAnArray == [isArray |-> FALSE, results |-> <<>>]

Responses ==
    {[isArray |-> TRUE, results |-> <<>>],
     [isArray |-> TRUE,
      results |-> <<[label |-> "artificial", score |-> 875],
                    [label |-> "human", score |-> 125]>>],
     NotAnArray}

\* the error messages a remote classification rejects with, named by the
\* keyword they include
ErrorMessages == {"rate", "loading", "401"}

isTransient(variant, message) ==
    message \in {"rate", "503", "timeout"} \cup
        (IF variant = "server" THEN {"loading", "529"} ELSE {})

Models == {"primaryModel", "fallbackModel"}

generateMockAnalysis_unbiased(reason, draw) ==
    LET aiProbability == 10 * draw
        realProbability == 10000 - aiProbability
        trustScore == roundDiv(realProbability, 100)
        confidence == roundDiv(500000 + Abs(aiProbability - realProbability) * 50, 10000)
    IN [trustScore    |-> trustScore,
        confidence    |-> confidence,
        isAIGenerated |-> aiProbability > 5000,
        status        |-> determineStatus(trustScore),
        analysis      |-> [aiProbability   |-> roundDiv(aiProbability, 100),
                           realProbability |-> roundDiv(realProbability, 100),
                           modelUsed       |-> <<"mock-", reason>>],
        isMock        |-> TRUE]

\* generateMockAnalysis(reason), Math.random() being draw / 1000:
\* aiProbability = draw * 0.4 / 1000, in ten-thousandths 4 * draw
generateMockAnalysis(reason, draw) ==
    LET aiProbability == 4 * draw
        realProbability == 10000 - aiProbability
        trustScore == roundDiv(realProbability, 100)
        confidence == roundDiv(500000 + Abs(aiProbability - realProbability) * 50, 10000)
    IN [trustScore    |-> trustScore,
        confidence    |-> confidence,
        isAIGenerated |-> aiProbability > 5000,
        status        |-> determineStatus(trustScore),
        analysis      |-> [aiProbability   |-> roundDiv(aiProbability, 100),
                           realProbability |-> roundDiv(realProbability, 100),
                           modelUsed       |-> <<"mock-", reason>>],
        isMock        |-> TRUE]

\* analyzeImage, from "Parse results" to its return
analysisResult(variant, results, modelUsed) ==
    LET analysis == parseClassificationResults(variant, results, modelUsed)
        trustScore == calculateTrustScore(analysis)
    IN [trustScore    |-> trustScore.score,
        confidence    |-> trustScore.confidence,
        isAIGenerated |-> trustScore.isAIGenerated,
        status        |-> determineStatus(trustScore.score),
        analysis      |-> analysis]

InitAI ==
    \E variant \in AIVariants, apiKey \in BOOLEAN :
        ai = [variant |-> variant, apiKey |-> apiKey, pc |-> "idle",
              model |-> "primaryModel", attempt |-> 0,
              calls |-> [m \in Models |-> 0], slept |-> <<>>, failed |-> {},
              error |-> [m \in Models |-> ""],
              result |-> <<>>, raised |-> FALSE]

\* analyzeImage up to its first await
AnalyzeImage(draw) ==
    /\ ai.pc = "idle"
    /\ IF ~ai.apiKey
       THEN ai' = [ai EXCEPT !.pc = "done",
                             !.result = <<generateMockAnalysis("no-api-key", draw)>>]
       ELSE ai' = [ai EXCEPT !.pc = "calling", !.attempt = 1]
    /\ UNCHANGED <<pin, parse, clientVars>>

\* the remote classification resolves: classifyWithRetry returns it and
\* analyzeImage parses it; the copy of aiService.js iterates over the response
\* without testing it, which throws on a response that is not a list
ClassifyResolves(response) ==
    /\ ai.pc = "calling"
    /\ IF ~response.isArray
       THEN IF ai.variant = "aiService"
            THEN ai' = [ai EXCEPT !.pc = "done", !.raised = TRUE,
                                  !.calls[ai.model] = @ + 1]
            ELSE ai' = [ai EXCEPT !.pc = "done", !.calls[ai.model] = @ + 1,
                          !.result = <<LET half == [aiProbability |-> 50, realProbability |-> 50,
                                                    modelUsed |-> ai.model]
                                           trustScore == calculateTrustScore(half)
                                       IN [trustScore    |-> trustScore.score,
                                           confidence    |-> trustScore.confidence,
                                           isAIGenerated |-> trustScore.isAIGenerated,
                                           status        |-> determineStatus(trustScore.score),
                                           analysis      |-> half]>>]
       ELSE ai' = [ai EXCEPT !.pc = "done", !.calls[ai.model] = @ + 1,
                             !.result = <<analysisResult(ai.variant, response.results, ai.model)>>]
    /\ UNCHANGED <<pin, parse, clientVars>>

ClassifyRejects_rethrow(message, draw) ==
    /\ ai.pc = "calling"
    /\ IF ai.attempt < aiMaxRetries /\ isTransient(ai.variant, message)
       THEN ai' = [ai EXCEPT !.pc = "sleeping", !.calls[ai.model] = @ + 1,
                             !.error[ai.model] = message,
                             !.slept = Append(@, retryDelay(ai.variant) * ai.attempt)]
       ELSE IF ai.model = "primaryModel"
       THEN ai' = [ai EXCEPT !.model = "fallbackModel", !.attempt = 1,
                             !.error[ai.model] = message,
                             !.calls[ai.model] = @ + 1, !.failed = @ \cup {ai.model}]
       ELSE ai' = [ai EXCEPT !.pc = "done", !.calls[ai.model] = @ + 1,
                             !.error[ai.model] = message,
                             !.failed = @ \cup {ai.model}, !.raised = TRUE]
    /\ UNCHANGED <<pin, parse, clientVars>>

ClassifyRejects_retryAll(message, draw) ==
    /\ ai.pc = "calling"
    /\ IF ai.attempt < aiMaxRetries
       THEN ai' = [ai EXCEPT !.pc = "sleeping", !.calls[ai.model] = @ + 1,
                             !.error[ai.model] = message,
                             !.slept = Append(@, retryDelay(ai.variant) * ai.attempt)]
       ELSE IF ai.model = "primaryModel"
       THEN ai' = [ai EXCEPT !.model = "fallbackModel", !.attempt = 1,
                             !.error[ai.model] = message,
                             !.calls[ai.model] = @ + 1, !.failed = @ \cup {ai.model}]
       ELSE ai' = [ai EXCEPT !.pc = "done", !.calls[ai.model] = @ + 1,
                             !.error[ai.model] = message,
                             !.failed = @ \cup {ai.model},
                             !.result = <<generateMockAnalysis(
                                 IF ai.variant = "aiService" THEN "fallback-mock"
                                 ELSE "api-failure", draw)>>]
    /\ UNCHANGED <<pin, parse, clientVars>>

\* the remote classification rejects: classifyWithRetry sleeps and retries
\* on a transient error before its last attempt, and throws otherwise;
\* analyzeImage catches the primary model's error and goes to the fallback
\* model, and the fallback model's error and returns a mock analysis
ClassifyRejects(message, draw) ==
    /\ ai.pc = "calling"
    /\ IF ai.attempt < aiMaxRetries /\ isTransient(ai.variant, message)
       THEN ai' = [ai EXCEPT !.pc = "sleeping", !.calls[ai.model] = @ + 1,
                             !.error[ai.model] = message,
                             !.slept = Append(@, retryDelay(ai.variant) * ai.attempt)]
       ELSE IF ai.model = "primaryModel"
       THEN ai' = [ai EXCEPT !.model = "fallbackModel", !.attempt = 1,
                             !.error[ai.model] = message,
                             !.calls[ai.model] = @ + 1, !.failed = @ \cup {ai.model}]
       ELSE ai' = [ai EXCEPT !.pc = "done", !.calls[ai.model] = @ + 1,
                             !.error[ai.model] = message,
                             !.failed = @ \cup {ai.model},
                             !.result = <<generateMockAnalysis(
                                 IF ai.variant = "aiService" THEN "fallback-mock"
                                 ELSE "api-failure", draw)>>]
    /\ UNCHANGED <<pin, parse, clientVars>>

\* classifyWithRetry: the sleep is over, classifyWithRetry(..., attempt + 1)
ClassifyRetry ==
    /\ ai.pc = "sleeping"
    /\ ai' = [ai EXCEPT !.pc = "calling", !.attempt = @ + 1]
    /\ UNCHANGED <<pin, parse, clientVars>>

(***************************************************************************)
(* The pinning adapter: uploadMetadata                                     *)
(* Text is a sequence of character codes.                                  *)
(***************************************************************************)
\* the readings of the clock during the uploads
PinClock == {1, 2}

\* n times the letter x
Xs(n) == [i \in 1..n |-> 120]

\* the metadata objects tried: objects of string fields. The last two differ
\* only after the 32nd character of their JSON text.
Metadatas ==
    {<<>>,
     <<[key |-> <<97>>, value |-> <<49>>]>>,
     <<[key |-> <<97>>, value |-> <<50>>]>>,
     <<[key |-> <<107>>, value |-> Xs(30) \o <<49>>]>>,
     <<[key |-> <<107>>, value |-> Xs(30) \o <<50>>]>>}

Names == {"deeptrust-verification", "report"}

\* JSON.stringify of an object of string fields: {"key":"value",...}
RECURSIVE stringifyFields(_)
stringifyFields(fields) ==
    IF fields = <<>> THEN <<>>
    ELSE <<34>> \o Head(fields).key \o <<34, 58, 34>> \o Head(fields).value \o <<34>>
         \o (IF Tail(fields) = <<>> THEN <<>> ELSE <<44>> \o stringifyFields(Tail(fields)))

stringify(data) == <<123>> \o stringifyFields(data) \o <<125>>

\* String.prototype.substring(0, n)
substring(text, n) == SubSeq(text, 1, Min(n, Len(text)))

\* Buffer.toString('base64'): the digits 0..63 of the encoding, 64 for '='
RECURSIVE base64(_)
base64(bytes) ==
    IF bytes = <<>> THEN <<>>
    ELSE IF Len(bytes) = 1
    THEN <<bytes[1] \div 4, (bytes[1] % 4) * 16, 64, 64>>
    ELSE IF Len(bytes) = 2
    THEN <<bytes[1] \div 4, (bytes[1] % 4) * 16 + bytes[2] \div 16, (bytes[2] % 16) * 4, 64>>
    ELSE <<bytes[1] \div 4, (bytes[1] % 4) * 16 + bytes[2] \div 16,
           (bytes[2] % 16) * 4 + bytes[3] \div 64, bytes[3] % 64>>
         \o base64(SubSeq(bytes, 4, Len(bytes)))

\* .replace(/[^a-zA-Z0-9]/g, ''): '+' is digit 62, '/' is digit 63
alphanumeric(digit) == digit < 62

generateMockUploadResult_stamped(data, name, reason) ==
    LET mockHash == <<"Qm">> \o
            substring(SelectSeq(base64(substring(stringify(data), 32)), alphanumeric), 44)
    IN [success    |-> TRUE,
        cid        |-> <<"mock-">> \o mockHash \o <<pin.clock>>,
        size       |-> Len(stringify(data)),
        timestamp  |-> pin.clock,
        isMock     |-> TRUE,
        mockReason |-> reason]

generateMockUploadResult(data, name, reason) ==
    LET mockHash == <<"Qm">> \o
            substring(SelectSeq(base64(substring(stringify(data), 32)), alphanumeric), 44)
    IN [success    |-> TRUE,
        cid        |-> <<"mock-">> \o mockHash,
        size       |-> Len(stringify(data)),
        timestamp  |-> pin.clock,
        isMock     |-> TRUE,
        mockReason |-> reason]

\* result.IpfsHash of a resolved client.upload.json(wrappedMetadata, ...): the
\* service's content identifier of what was uploaded
IpfsHash(wrappedMetadata) == <<"Qm", wrappedMetadata>>

InitPin ==
    \E e \in [PINATA_API_KEY : BOOLEAN, PINATA_SECRET_KEY : BOOLEAN] :
        pin = [env |-> e, pinataClient |-> FALSE, clock |-> 1, last |-> <<>>,
               mockCids |-> [m \in Metadatas |-> {}]]

\* uploadMetadata(metadata, name); sdkOk: new PinataSDK(...) does not throw;
\* uploaded: client.upload.json(...) resolves
UploadMetadata(metadata, name, sdkOk, uploaded) ==
    LET \* getClient()
        client == pin.pinataClient \/
                  (pin.env.PINATA_API_KEY /\ pin.env.PINATA_SECRET_KEY /\ sdkOk)
        wrappedMetadata == [deeptrust |-> [timestamp |-> pin.clock], metadata |-> metadata]
        result ==
            IF ~client THEN generateMockUploadResult(metadata, name, "no-credentials")
            ELSE IF uploaded
            THEN [success   |-> TRUE,
                  cid       |-> IpfsHash(wrappedMetadata),
                  size      |-> "PinSize",
                  timestamp |-> pin.clock]
            ELSE generateMockUploadResult(metadata, name, "error.message")
    IN /\ pin' = [pin EXCEPT
              !.pinataClient = client,
              !.last = <<[metadata |-> metadata, name |-> name, client |-> client,
                          uploaded |-> client /\ uploaded, result |-> result]>>,
              !.mockCids[metadata] =
                  IF "isMock" \in DOMAIN result THEN @ \cup {result.cid} ELSE @]
       /\ UNCHANGED <<ai, parse, clientVars>>

\* the clock moves on between uploads
PinTick ==
    /\ pin.clock + 1 \in PinClock
    /\ pin' = [pin EXCEPT !.clock = @ + 1]
    /\ UNCHANGED <<ai, parse, clientVars>>

(***************************************************************************)
(* The ledger under arbitrary callers                                      *)
(***************************************************************************)
InitLedgerSpec == InitLedger /\ ProbeIdle /\ ServerIdle /\ AdaptersIdle

NextLedger ==
    \/ \E sender \in Addresses, h \in Hashes, s \in LedgerScores, m \in MetaHashes :
          storeVerification(sender, h, s, m) /\ UNCHANGED <<probe, serverVars, adapterVars>>
    \/ \E sender \in Addresses, v \in Targets :
          addVerifier(sender, v) /\ UNCHANGED <<probe, serverVars, adapterVars>>
    \/ \E sender \in Addresses, v \in Targets :
          removeVerifier(sender, v) /\ UNCHANGED <<probe, serverVars, adapterVars>>
    \/ AdvanceBlock /\ UNCHANGED <<probe, serverVars, adapterVars>>

SpecLedger == InitLedgerSpec /\ [][NextLedger]_vars

\* every score 0..100 through determineStatus and storeVerification
InitStatus ==
    /\ InitLedger
    /\ ServerIdle
    /\ AdaptersIdle
    /\ \E s \in 0..MaxTrustScore : probe = [pc |-> "scored", score |-> s, status |-> ""]

NextStatus ==
    \/ Classify /\ UNCHANGED <<serverVars, adapterVars>>
    \/ Anchor /\ UNCHANGED <<serverVars, adapterVars>>

SpecStatus == InitStatus /\ [][NextStatus]_vars

\* the server's requests, interleaved at their awaits
InitServerSpec == InitLedger /\ ProbeIdle /\ InitServer /\ AdaptersIdle

NextServer ==
    \/ \E r \in Requests, h \in BodyHashes, d \in RandomDraws :
          Verify(r, h, d) /\ UNCHANGED <<probe, adapterVars>>
    \/ \E r \in Requests : AnchorSubmit(r) /\ UNCHANGED <<probe, adapterVars>>
    \/ \E r \in Requests : AnchorAttemptSucceeds(r) /\ UNCHANGED <<probe, adapterVars>>
    \/ \E r \in Requests : AnchorAttemptFails(r) /\ UNCHANGED <<probe, adapterVars>>
    \/ \E r \in Requests : AnchorRetry(r) /\ UNCHANGED <<probe, adapterVars>>
    \/ Tick /\ UNCHANGED <<probe, adapterVars>>

SpecServer == InitServerSpec /\ [][NextServer]_vars

\* one request of a server whose signer is set, in which every awaited
\* promise (the send, the receipt, the sleep) settles
InitAnchorSpec == InitServerSpec /\ contractWithSigner

AnchorSettles(r) ==
    AnchorSubmit(r) \/ AnchorAttemptSucceeds(r) \/ AnchorAttemptFails(r) \/ AnchorRetry(r)

NextAnchor ==
    \/ \E r \in {1}, h \in BodyHashes, d \in RandomDraws :
          Verify(r, h, d) /\ UNCHANGED <<probe, adapterVars>>
    \/ \E r \in {1} : AnchorSubmit(r) /\ UNCHANGED <<probe, adapterVars>>
    \/ \E r \in {1} : AnchorAttemptSucceeds(r) /\ UNCHANGED <<probe, adapterVars>>
    \/ \E r \in {1} : AnchorAttemptFails(r) /\ UNCHANGED <<probe, adapterVars>>
    \/ \E r \in {1} : AnchorRetry(r) /\ UNCHANGED <<probe, adapterVars>>
    \/ Tick /\ UNCHANGED <<probe, adapterVars>>

SpecAnchor ==
    /\ InitAnchorSpec
    /\ [][NextAnchor]_vars
    /\ WF_vars(AnchorSettles(1) /\ UNCHANGED <<probe, adapterVars>>)

\* one analyzeImage call
InitAISpec ==
    /\ InitLedger /\ ProbeIdle /\ ServerIdle
    /\ InitAI /\ pin = <<>> /\ parse = <<>> /\ ClientsIdle

NextAI ==
    \/ \E d \in MockDraws :
          AnalyzeImage(d) /\ UNCHANGED <<chainVars, probe, serverVars>>
    \/ \E response \in Responses :
          ClassifyResolves(response) /\ UNCHANGED <<chainVars, probe, serverVars>>
    \/ \E message \in ErrorMessages, d \in MockDraws :
          ClassifyRejects(message, d) /\ UNCHANGED <<chainVars, probe, serverVars>>
    \/ ClassifyRetry /\ UNCHANGED <<chainVars, probe, serverVars>>

SpecAI == InitAISpec /\ [][NextAI]_vars

\* the same call, in which every remote classification settles and every
\* sleep ends
SpecAISettles == SpecAI /\ WF_vars(NextAI)

\* uploadMetadata, called again and again
InitPinSpec ==
    /\ InitLedger /\ ProbeIdle /\ ServerIdle
    /\ InitPin /\ ai = <<>> /\ parse = <<>> /\ ClientsIdle

NextPin ==
    \/ \E metadata \in Metadatas, name \in Names, sdkOk \in BOOLEAN, uploaded \in BOOLEAN :
          UploadMetadata(metadata, name, sdkOk, uploaded)
          /\ UNCHANGED <<chainVars, probe, serverVars>>
    \/ PinTick /\ UNCHANGED <<chainVars, probe, serverVars>>

SpecPin == InitPinSpec /\ [][NextPin]_vars

\* every list of at most MaxResults results through both copies of
\* parseClassificationResults
InitParseSpec ==
    /\ InitLedger /\ ProbeIdle /\ ServerIdle
    /\ InitParse /\ ai = <<>> /\ pin = <<>> /\ ClientsIdle

NextParse ==
    \/ Parse("aiService") /\ UNCHANGED <<chainVars, probe, serverVars>>
    \/ Parse("server") /\ UNCHANGED <<chainVars, probe, serverVars>>

SpecParse == InitParseSpec /\ [][NextParse]_vars

\* calculateTrustScore on every analysis (p, 1 - p) and on its swap
InitTrustSpec ==
    /\ InitLedger /\ ProbeIdle /\ ServerIdle
    /\ InitTrust /\ ai = <<>> /\ pin = <<>> /\ parse = <<>>
    /\ upload = <<>> /\ reader = <<>> /\ ui = <<>>

NextTrust ==
    \/ Score("asGiven") /\ UNCHANGED <<chainVars, probe, serverVars>>
    \/ Score("swapped") /\ UNCHANGED <<chainVars, probe, serverVars>>

SpecTrust == InitTrustSpec /\ [][NextTrust]_vars

\* one processUploadedFile call on every buffer, declared type and option
InitUploadSpec ==
    /\ InitLedger /\ ProbeIdle /\ ServerIdle
    /\ InitUpload /\ ai = <<>> /\ pin = <<>> /\ parse = <<>>
    /\ trust = <<>> /\ reader = <<>> /\ ui = <<>>

NextUpload ==
    \E writeOk \in BOOLEAN :
        ProcessUploadedFile(writeOk) /\ UNCHANGED <<chainVars, probe, serverVars>>

SpecUpload == InitUploadSpec /\ [][NextUpload]_vars

\* the owner writes to the ledger while the server reads it by id and by hash
InitReaderSpec ==
    /\ InitLedger /\ ProbeIdle /\ ServerIdle
    /\ InitReader /\ ai = <<>> /\ pin = <<>> /\ parse = <<>>
    /\ trust = <<>> /\ upload = <<>> /\ ui = <<>>

NextReader ==
    \/ \E h \in Hashes, s \in LedgerScores, m \in MetaHashes :
          storeVerification(Deployer, h, s, m) /\ UNCHANGED <<probe, serverVars, adapterVars>>
    \/ \E id \in ReadIds, queryOk \in BOOLEAN :
          GetVerificationById(id, queryOk) /\ UNCHANGED <<chainVars, probe, serverVars>>
    \/ \E h \in Hashes, queryOk \in BOOLEAN :
          GetVerificationByHash(h, queryOk) /\ UNCHANGED <<chainVars, probe, serverVars>>

SpecReader == InitReaderSpec /\ [][NextReader]_vars

\* the user's clicks and the completions of the calls, in any order
InitUISpec ==
    /\ InitLedger /\ ProbeIdle /\ ServerIdle
    /\ InitUI /\ ai = <<>> /\ pin = <<>> /\ parse = <<>>
    /\ trust = <<>> /\ upload = <<>> /\ reader = <<>>

NextUI ==
    \/ \E file \in OfferedFiles :
          HandleFileSelect(file) /\ UNCHANGED <<chainVars, probe, serverVars>>
    \/ ClearFile /\ UNCHANGED <<chainVars, probe, serverVars>>
    \/ StartVerification /\ UNCHANGED <<chainVars, probe, serverVars>>
    \/ \E i \in 1..MaxRuns : TimersElapse(i) /\ UNCHANGED <<chainVars, probe, serverVars>>
    \/ \E i \in 1..MaxRuns : VerifyFileResolves(i) /\ UNCHANGED <<chainVars, probe, serverVars>>
    \/ \E i \in 1..MaxRuns : VerifyFileRejects(i) /\ UNCHANGED <<chainVars, probe, serverVars>>
    \/ \E i \in 1..MaxRuns : CompleteRun(i) /\ UNCHANGED <<chainVars, probe, serverVars>>

SpecUI == InitUISpec /\ [][NextUI]_vars

(***************************************************************************)
(* Properties of the ledger                                                *)
(***************************************************************************)
\* the tier of a score under the three thresholds
Tier(score) ==
    CASE score >= 80 -> "verified"
      [] score >= 50 /\ score < 80 -> "suspicious"
      [] score < 50 -> "fake"

\* C1: for every trust score s in 0..100 the tier is verified iff s >= 80,
\* suspicious iff 50 <= s < 80 and fake iff s < 50, both for
\* determineStatus(s) and for the status storeVerification records for s,
\* so that the two agree.
C1_StatusTiers ==
    /\ probe.pc \in {"classified", "anchored"} =>
          /\ (probe.status = "verified") <=> (probe.score >= 80)
          /\ (probe.status = "suspicious") <=> (probe.score >= 50 /\ probe.score < 80)
          /\ (probe.status = "fake") <=> (probe.score < 50)
    /\ (probe.pc = "anchored" /\ ~lastTx.reverted) =>
          /\ Len(verifications) = 1
          /\ verifications[1].trustScore = probe.score
          /\ (verifications[1].status = Verified) <=> (probe.score >= 80)
          /\ (verifications[1].status = Suspicious) <=> (probe.score >= 50 /\ probe.score < 80)
          /\ (verifications[1].status = Fake) <=> (probe.score < 50)
          /\ VerificationStatus[verifications[1].status] = probe.status

C1_Witness ==
    /\ probe.pc = "anchored"
    /\ probe.score = 80
    /\ probe.status = "verified"
    /\ Len(verifications) = 1
    /\ verifications[1].status = Verified

\* C2: every record the POST /api/verify handler appends to the in-memory
\* list and returns carries the tier of its own trustScore: verified iff
\* trustScore >= 80, suspicious iff 50 <= trustScore < 80, fake iff < 50.
C2_RecordStatusIsTier ==
    /\ \A i \in 1..Len(verificationDb) :
          verificationDb[i].status = Tier(verificationDb[i].trustScore)
    /\ \A r \in Requests :
          (requests[r].response # <<>> /\ requests[r].response[1].code = 200) =>
              requests[r].response[1].body.status = Tier(requests[r].response[1].body.trustScore)

\* how often a record is in the in-memory list, and how many requests were
\* answered 200 with it
CountDb(rec) == Cardinality({i \in 1..Len(verificationDb) : verificationDb[i] = rec})

Answered(r, code) == requests[r].response # <<>> /\ requests[r].response[1].code = code

CountAnswered(rec) ==
    Cardinality({r \in Requests : Answered(r, 200) /\ requests[r].response[1].body = rec})

\* the ledger entries a request's run created
EntriesOf(r) ==
    {i \in 1..Len(verifications) : verifications[i].aiMetadataHash = mockAiHash(r)}

\* C11: one verification run submits at most one storeVerification
\* transaction and so creates at most one ledger entry, also when an
\* anchoring attempt fails and is retried.
C11_AtMostOneLedgerWrite ==
    \A r \in Requests :
        /\ requests[r].submitted <= 1
        /\ Cardinality(EntriesOf(r)) <= 1

\* C12: when the wallet credential or the contract address is not
\* configured, the anchoring step gives a synthetic proof (transaction id,
\* block number, isMock = true), attempts no ledger write, and the run
\* completes normally.
C12_UnconfiguredGivesMockProof ==
    \A r \in Requests :
        (requests[r].pc = "done" /\ requests[r].contentHash # "" /\ ~isConfigured) =>
            /\ Answered(r, 200)
            /\ requests[r].submitted = 0
            /\ requests[r].attempt = 0
            /\ verifications = <<>>
            /\ LET proof == requests[r].response[1].body.blockchainProof IN
               /\ {"txHash", "blockNumber", "isMock"} \subseteq DOMAIN proof
               /\ proof.isMock = TRUE

\* C13: a hard failure of the anchoring step never aborts the run: the run
\* completes, one record is appended and returned with a success response,
\* and its blockchain proof is marked as failed.
C13_AnchorFailureDegrades ==
    \A r \in Requests :
        requests[r].bcError =>
            /\ requests[r].pc = "done"
            /\ Answered(r, 200)
            /\ LET body == requests[r].response[1].body IN
               /\ DOMAIN body.blockchainProof = {"error"}
               /\ CountDb(body) >= 1
               /\ CountDb(body) = CountAnswered(body)

C13_Witness ==
    \E r \in Requests :
        /\ requests[r].bcError
        /\ requests[r].attempt = maxRetries
        /\ requests[r].submitted >= 1
        /\ Len(verificationDb) = 1

\* C14: no partial record is persisted: a request appends exactly one
\* complete record iff it answers with success, the appended record is the
\* one returned, and a request answered 400 or 500 appends nothing and
\* makes no anchoring call.
C14_NoPartialRecord ==
    /\ \A i \in 1..Len(verificationDb) :
          /\ DOMAIN verificationDb[i] =
                {"id", "trustScore", "status", "blockchainProof", "analysis", "timestamp"}
          /\ CountDb(verificationDb[i]) = CountAnswered(verificationDb[i])
    /\ Len(verificationDb) = Cardinality({r \in Requests : Answered(r, 200)})
    /\ \A r \in Requests :
          /\ Answered(r, 200) => CountDb(requests[r].response[1].body) >= 1
          /\ (requests[r].response # <<>>) <=> (requests[r].pc = "done")
          /\ (Answered(r, 400) \/ Answered(r, 500)) =>
                requests[r].attempt = 0 /\ requests[r].submitted = 0

C14_Witness ==
    /\ \E r \in Requests : Answered(r, 200) /\ requests[r].submitted >= 1
    /\ \E r \in Requests : Answered(r, 400) \/ Answered(r, 500)
    /\ Len(verificationDb) = 1

\* C15: concurrent appends lose no update: when the N requests, interleaved
\* at their awaits, have all succeeded, the list holds exactly N records.
C15_NoLostAppend ==
    (\A r \in Requests : Answered(r, 200)) => Len(verificationDb) = NumRequests

C15_Witness ==
    /\ \A r \in Requests : Answered(r, 200) /\ requests[r].attempt >= 2
    /\ Len(verificationDb) = NumRequests
    /\ \A i, j \in 1..Len(verificationDb) : verificationDb[i].id = verificationDb[j].id

\* C16: no two records in the in-memory list have the same id, also for
\* requests that complete at the same clock reading.
C16_UniqueIds ==
    \A i, j \in 1..Len(verificationDb) :
        i # j => verificationDb[i].id # verificationDb[j].id

\* C17: GET /api/history returns the records newest-first: of two records,
\* the one appended later comes earlier in the answer.
C17_HistoryNewestFirst ==
    /\ Len(apiHistory) = Len(verificationDb)
    /\ \A k \in 1..Len(apiHistory) :
          apiHistory[k] = verificationDb[Len(verificationDb) + 1 - k]

\* the sleeps of anchorVerification after failed attempts 1..n
Backoff(n) == [k \in 1..n |-> anchorRetryDelay * k]

IdsOf(h) == {i \in 0..(Len(verifications) - 1) : verifications[i + 1].contentHash = h}

SetMax(S) == CHOOSE x \in S : \A y \in S : y <= x

\* a step that executes a transaction (every other step moves the chain to
\* the next block); lastTx' is then that transaction and its outcome
IsTx(fn) == blockTimestamp' = blockTimestamp /\ lastTx'.fn = fn

\* C3: storeVerification called by an address that is neither the owner nor
\* in the authorized-verifier set reverts and leaves the entries, the
\* content-hash history, the count and the access-control set unchanged.
C3_UnauthorizedStoreReverts ==
    [][(/\ IsTx("storeVerification")
        /\ lastTx'.sender # owner
        /\ ~authorizedVerifiers[lastTx'.sender])
          => /\ lastTx'.reverted
             /\ getVerificationCount' = getVerificationCount
             /\ UNCHANGED ledgerVars]_vars

C3_Witness ==
    /\ lastTx.fn = "storeVerification"
    /\ lastTx.reverted
    /\ lastTx.score <= MaxTrustScore
    /\ lastTx.sender # owner
    /\ ~authorizedVerifiers[lastTx.sender]
    /\ Len(verifications) > 0

\* C4: storeVerification called by the owner or an added verifier with a
\* score <= 100 succeeds, increases the count by exactly 1 and returns the
\* count before the call; and in every state the entry at position i has id i.
C4_SequentialIds ==
    /\ [][(/\ IsTx("storeVerification")
            /\ (lastTx'.sender = owner \/ authorizedVerifiers[lastTx'.sender])
            /\ lastTx'.score <= MaxTrustScore)
                => /\ ~lastTx'.reverted
                   /\ getVerificationCount' = getVerificationCount + 1
                   /\ lastTx'.ret = <<getVerificationCount>>]_vars
    /\ [](\A i \in 0..(getVerificationCount - 1) :
            /\ ~getVerification(i).reverted
            /\ getVerification(i).value[1].id = i)

C4_Witness ==
    /\ lastTx.fn = "storeVerification"
    /\ ~lastTx.reverted
    /\ lastTx.sender # owner
    /\ lastTx.ret = <<2>>
    /\ getVerificationCount = 3

\* C5: the ledger is append-only: an entry once written is returned
\* identically by getVerification in every later state, whatever calls are
\* made, and the count never decreases.
C5_AppendOnly ==
    [][/\ getVerificationCount' >= getVerificationCount
       /\ \A i \in 0..(getVerificationCount - 1) :
             getVerification(i)' = getVerification(i)]_vars

C5_Witness ==
    /\ getVerificationCount >= 2
    /\ \E i \in 0..(getVerificationCount - 1) :
          /\ ~authorizedVerifiers[getVerification(i).value[1].verifier]
          /\ getVerification(i).value[1].verifier # owner
          /\ getVerification(i).value[1].timestamp < blockTimestamp
    /\ lastTx.fn = "storeVerification"
    /\ ~lastTx.reverted

\* C6: for every content hash h, getContentHistory(h) is the strictly
\* increasing list of the ids of all entries whose content hash is h, and
\* getLatestVerification(h) returns the entry with the greatest such id.
C6_HistoryMatchesEntries ==
    \A h \in Hashes :
        LET history == getContentHistory(h) IN
        /\ \A k \in 1..(Len(history) - 1) : history[k] < history[k + 1]
        /\ {history[k] : k \in 1..Len(history)} = IdsOf(h)
        /\ IdsOf(h) # {} =>
              /\ ~getLatestVerification(h).reverted
              /\ getLatestVerification(h).value = <<verifications[SetMax(IdsOf(h)) + 1]>>

C6_Witness ==
    \E h \in Hashes, g \in Hashes :
        /\ getContentHistory(h) = <<0, 2>>
        /\ getContentHistory(g) = <<1>>
        /\ getLatestVerification(h).value[1].id = 2

\* C7: getLatestVerification on a content hash with no stored entry reverts
\* instead of returning a default record, getVerification(id) reverts for
\* every id >= the count, and what either returns is an entry that
\* storeVerification wrote (for getLatestVerification, one for that hash).
C7_ReadsRevertOnMissing ==
    /\ \A h \in Hashes :
          IF IdsOf(h) = {}
          THEN getLatestVerification(h).reverted
          ELSE \E i \in IdsOf(h) : getLatestVerification(h).value = <<verifications[i + 1]>>
    /\ \A id \in 0..(MaxEntries + 1) :
          IF id >= getVerificationCount
          THEN getVerification(id).reverted
          ELSE getVerification(id).value = <<verifications[id + 1]>>

C7_Witness ==
    /\ getVerificationCount = 2
    /\ \E h \in Hashes : IdsOf(h) = {} /\ getLatestVerification(h).reverted
    /\ getVerification(2).reverted

\* C8: storeVerification with a trust score greater than 100 reverts and
\* leaves the ledger unchanged, even for the owner or an authorized
\* verifier; so every entry has a trust score in 0..100.
C8_ScoreAbove100Reverts ==
    /\ [][(IsTx("storeVerification") /\ lastTx'.score > MaxTrustScore)
                => /\ lastTx'.reverted
                   /\ UNCHANGED ledgerVars]_vars
    /\ [](\A i \in 1..Len(verifications) : verifications[i].trustScore \in 0..MaxTrustScore)

C8_Witness ==
    /\ lastTx.fn = "storeVerification"
    /\ lastTx.score > MaxTrustScore
    /\ lastTx.reverted
    /\ lastTx.sender # owner
    /\ authorizedVerifiers[lastTx.sender]
    /\ Len(verifications) > 0

\* C9: addVerifier and removeVerifier succeed only when called by the owner;
\* a call by any other address, an authorized verifier included, reverts and
\* leaves the access-control set unchanged; the set changes only through
\* add/remove calls of the owner.
C9_AdminOwnerOnly ==
    /\ [][((IsTx("addVerifier") \/ IsTx("removeVerifier")) /\ lastTx'.sender # owner)
                => /\ lastTx'.reverted
                   /\ UNCHANGED authorizedVerifiers]_vars
    /\ [][authorizedVerifiers' # authorizedVerifiers
            => /\ lastTx'.fn \in {"addVerifier", "removeVerifier"}
               /\ lastTx'.sender = owner
               /\ ~lastTx'.reverted]_vars
    /\ []((lastTx.fn \in {"addVerifier", "removeVerifier"} /\ ~lastTx.reverted)
            => lastTx.sender = owner)

C9_Witness ==
    /\ lastTx.fn = "removeVerifier"
    /\ lastTx.reverted
    /\ lastTx.sender # owner
    /\ authorizedVerifiers[lastTx.sender]

\* C10: the owner is always permitted to write: after any addVerifier and
\* removeVerifier calls, removeVerifier(owner) included, a storeVerification
\* call by the owner with score <= 100 succeeds.
C10_OwnerAlwaysWrites ==
    [][(/\ IsTx("storeVerification")
        /\ lastTx'.sender = owner
        /\ lastTx'.score <= MaxTrustScore)
              => /\ ~lastTx'.reverted
                 /\ getVerificationCount' = getVerificationCount + 1
                 /\ verifications'[getVerificationCount'].verifier = owner]_vars

C10_Witness ==
    /\ lastTx.fn = "storeVerification"
    /\ lastTx.sender = owner
    /\ ~lastTx.reverted
    /\ ~authorizedVerifiers[owner]

\* an admin call of the owner that went through
IsAdminTx(fn) == IsTx(fn) /\ ~lastTx'.reverted

\* C27: addVerifier and removeVerifier are idempotent: addVerifier(a) for an
\* authorized a and removeVerifier(a) for an a that is not authorized leave
\* the access-control set as it was, the same call made twice in a row
\* gives the state of making it once, and neither call changes the owner,
\* the entries or the history mapping.
C27_AdminIdempotent ==
    /\ [][IsAdminTx("addVerifier") =>
            /\ authorizedVerifiers' =
                  [authorizedVerifiers EXCEPT ![lastTx'.target] = TRUE]
            /\ authorizedVerifiers[lastTx'.target] => UNCHANGED authorizedVerifiers
            /\ UNCHANGED <<owner, verifications, contentHistory>>]_vars
    /\ [][IsAdminTx("removeVerifier") =>
            /\ authorizedVerifiers' =
                  [authorizedVerifiers EXCEPT ![lastTx'.target] = FALSE]
            /\ ~authorizedVerifiers[lastTx'.target] => UNCHANGED authorizedVerifiers
            /\ UNCHANGED <<owner, verifications, contentHistory>>]_vars
    /\ [][(/\ lastTx.fn \in {"addVerifier", "removeVerifier"}
           /\ ~lastTx.reverted
           /\ IsAdminTx(lastTx.fn)
           /\ lastTx'.target = lastTx.target) => UNCHANGED ledgerVars]_vars

C27_Witness ==
    /\ lastTx.fn = "addVerifier"
    /\ ~lastTx.reverted
    /\ lastTx.target = owner
    /\ \A a \in Targets : authorizedVerifiers[a]
    /\ Len(verifications) > 0

\* the entries address v wrote
EntriesBy(v) == {i \in 1..Len(verifications) : verifications[i].verifier = v}

\* C28: revocation takes effect: removeVerifier(v) by the owner leaves v, if
\* it is not the owner, unauthorized; v stays so until the owner calls
\* addVerifier(v); while it is so every storeVerification by v reverts; and
\* the entries v wrote stay in the ledger as they are, with v as verifier.
C28_RevocationTakesEffect ==
    /\ [][IsAdminTx("removeVerifier") =>
            /\ ~authorizedVerifiers'[lastTx'.target]
            /\ UNCHANGED verifications]_vars
    /\ [][\A v \in Addresses :
            (~authorizedVerifiers[v] /\ authorizedVerifiers'[v]) =>
                /\ IsAdminTx("addVerifier")
                /\ lastTx'.sender = owner
                /\ lastTx'.target = v]_vars
    /\ [][(/\ IsTx("storeVerification")
           /\ lastTx'.sender # owner
           /\ ~authorizedVerifiers[lastTx'.sender]) =>
                /\ lastTx'.reverted
                /\ UNCHANGED ledgerVars]_vars
    /\ [][\A i \in 1..Len(verifications) :
            /\ Len(verifications') >= i
            /\ verifications'[i] = verifications[i]]_vars

C28_Witness ==
    \E v \in Addresses :
        /\ v # owner
        /\ ~authorizedVerifiers[v]
        /\ EntriesBy(v) # {}
        /\ lastTx.fn = "storeVerification"
        /\ lastTx.sender = v
        /\ lastTx.reverted

(***************************************************************************)
(* Properties of the adapters                                              *)
(***************************************************************************)
\* the fields a result of analyzeImage carries for the pipeline
CarriesScore(result) ==
    /\ {"trustScore", "confidence", "status"} \subseteq DOMAIN result
    /\ result.trustScore \in 0..100
    /\ result.confidence \in 0..100
    /\ result.status \in {"verified", "suspicious", "fake"}

\* C18: analyzeImage does not raise for a missing credential or for failing
\* models: without an AI credential it returns a result marked isMock and
\* makes no remote classification call; when the primary and the fallback
\* model have both failed it returns a result marked isMock; both results
\* carry a trust score, a confidence and a status.
C18_AnalyzeImageDegrades ==
    /\ (ai.pc # "idle" /\ ~ai.apiKey) =>
          /\ ai.pc = "done" /\ ~ai.raised
          /\ \A m \in Models : ai.calls[m] = 0
          /\ ai.result # <<>>
          /\ "isMock" \in DOMAIN ai.result[1] /\ ai.result[1].isMock
          /\ CarriesScore(ai.result[1])
    /\ ai.failed = Models =>
          /\ ai.pc = "done" /\ ~ai.raised
          /\ ai.result # <<>>
          /\ "isMock" \in DOMAIN ai.result[1] /\ ai.result[1].isMock
          /\ CarriesScore(ai.result[1])
    /\ ai.raised => (ai.apiKey /\ ai.failed # Models)

C18_Witness ==
    /\ ai.failed = Models
    /\ ai.calls["primaryModel"] = aiMaxRetries
    /\ ai.calls["fallbackModel"] = 1
    /\ ai.result # <<>> /\ ai.result[1].isMock

\* C19: uploadMetadata always returns a result with a non-empty cid; when
\* the credentials are missing or the remote upload fails the result is a
\* mock (isMock = true, cid starting with 'mock-'), and the mock cid
\* depends on the metadata only: the same metadata always gets the same cid.
C19_UploadAlwaysGivesCid ==
    /\ pin.last # <<>> =>
          LET call == pin.last[1] IN
          /\ Len(call.result.cid) > 0
          /\ call.result.success
          /\ (~call.uploaded) <=> ("isMock" \in DOMAIN call.result)
          /\ (~call.uploaded) =>
                /\ call.result.isMock
                /\ call.result.cid[1] = "mock-"
                /\ Len(call.result.cid) > 1
    /\ \A m \in Metadatas : Cardinality(pin.mockCids[m]) <= 1

C19_Witness ==
    /\ pin.last # <<>>
    /\ pin.last[1].client /\ ~pin.last[1].uploaded
    /\ pin.last[1].name = "report"
    /\ pin.clock = 2
    /\ \A m \in Metadatas : Cardinality(pin.mockCids[m]) = 1

\* C20: for every list of label/score pairs with scores in [0,1], the empty
\* list, a single entry and labels of neither polarity included,
\* parseClassificationResults returns aiProbability and realProbability in
\* [0,1] that sum to 1 (in hundredths: in 0..100, summing to 100).
C20_ProbabilitiesSumToOne ==
    \A variant \in AIVariants :
        parse[variant] # <<>> =>
            /\ parse[variant][1].aiProbability \in 0..100
            /\ parse[variant][1].realProbability \in 0..100
            /\ parse[variant][1].aiProbability + parse[variant][1].realProbability = 100

\* the sleeps of classifyWithRetry after failed attempts 1..n
AIBackoff(n) == [k \in 1..n |-> retryDelay(ai.variant) * k]

\* the sleeps the classifyWithRetry of model m has begun
SleepsOf(m) ==
    IF m = ai.model /\ ai.pc = "sleeping" THEN ai.calls[m]
    ELSE IF ai.calls[m] = 0 THEN 0
    ELSE IF m \in ai.failed \/ ai.pc = "done" THEN ai.calls[m] - 1
    ELSE ai.calls[m]

\* C25: classifyWithRetry calls its model at most 3 times: it retries only
\* after a transient failure, sleeping retryDelay * attempt before the next
\* attempt, throws a non-transient failure at once, throws after the third
\* failed attempt, and always terminates.
C25_ClassifyRetryBound ==
    /\ [](/\ \A m \in Models :
               /\ ai.calls[m] <= aiMaxRetries
               /\ (ai.error[m] # "" /\ ~isTransient(ai.variant, ai.error[m])) =>
                     m \in ai.failed
               /\ m \in ai.failed =>
                     /\ ai.error[m] # ""
                     /\ ai.calls[m] = aiMaxRetries \/ ~isTransient(ai.variant, ai.error[m])
          /\ ai.pc = "sleeping" =>
               /\ isTransient(ai.variant, ai.error[ai.model])
               /\ ai.attempt < aiMaxRetries
               /\ ai.calls[ai.model] = ai.attempt
          /\ ai.pc = "calling" => ai.calls[ai.model] = ai.attempt - 1
          /\ ai.slept = AIBackoff(SleepsOf("primaryModel")) \o
                        AIBackoff(SleepsOf("fallbackModel")))
    /\ (ai.pc = "calling") ~> (ai.pc = "done")

C25_Witness ==
    /\ ai.pc = "done"
    /\ ai.variant = "aiService"
    /\ ai.calls["primaryModel"] = aiMaxRetries
    /\ ai.slept = <<1000, 2000, 1000>>
    /\ ai.calls["fallbackModel"] = 2
    /\ ai.error["fallbackModel"] = "401"

\* C26: in analyzeImage the fallback model is invoked only after the primary
\* model has used up its 3 attempts, never when the primary model returned
\* a result, and the primary model is tried first.
C26_FallbackOnlyAfterExhaustion ==
    (ai.model = "fallbackModel" \/ ai.calls["fallbackModel"] > 0) =>
        /\ ai.calls["primaryModel"] = aiMaxRetries
        /\ "primaryModel" \in ai.failed

\* the mock analyses analyzeImage has returned
IsMockResult == ai.result # <<>> /\ "isMock" \in DOMAIN ai.result[1]

\* C29 as stated: every mock analysis of generateMockAnalysis has
\* aiProbability below 0.4 (in hundredths: below 40), a trust score in
\* 60..100, a status verified or suspicious, isAIGenerated = false, a
\* confidence in 60..100 and isMock = true.
C29_MockBelowFourTenths ==
    IsMockResult =>
        /\ ai.result[1].analysis.aiProbability < 40
        /\ ai.result[1].trustScore \in 60..100
        /\ ai.result[1].status \in {"verified", "suspicious"}
        /\ ~ai.result[1].isAIGenerated
        /\ ai.result[1].confidence \in 60..100
        /\ ai.result[1].isMock

\* C29, amended: the reported aiProbability is rounded to two decimals and so
\* is at most 0.40 (in hundredths: at most 40), and realProbability at least
\* 0.60; the other ranges are as stated.
C29_MockAtMostFourTenths ==
    IsMockResult =>
        /\ ai.result[1].analysis.aiProbability \in 0..40
        /\ ai.result[1].analysis.realProbability \in 60..100
        /\ ai.result[1].trustScore \in 60..100
        /\ ai.result[1].status \in {"verified", "suspicious"}
        /\ ~ai.result[1].isAIGenerated
        /\ ai.result[1].confidence \in 60..100
        /\ ai.result[1].isMock

C29_Witness ==
    /\ IsMockResult
    /\ ai.result[1].analysis.aiProbability = 40
    /\ ai.result[1].trustScore = 60
    /\ ai.result[1].status = "suspicious"
    /\ ai.failed = Models

(***************************************************************************)
(* Trust score and confidence                                              *)
(***************************************************************************)
\* C21: the confidence of an analysis (p, 1 - p) is the confidence of its
\* swap (1 - p, p), is 50 at p = 0.5, is 100 at p = 0 and at p = 1, and lies
\* in 50..100 for every p; the trust score is the real probability in
\* percent and lies in 0..100.
C21_ConfidenceSymmetric ==
    trust # <<>> =>
        /\ \A order \in {"asGiven", "swapped"} :
              trust[order] # <<>> =>
                 LET t == trust[order][1]
                 IN /\ t.trustScore.confidence \in 50..100
                    /\ trust.p = 50 => t.trustScore.confidence = 50
                    /\ trust.p \in {0, 100} => t.trustScore.confidence = 100
                    /\ t.trustScore.score = t.analysis.realProbability
                    /\ t.trustScore.score \in 0..100
        /\ (trust.asGiven # <<>> /\ trust.swapped # <<>>) =>
              trust.asGiven[1].trustScore.confidence = trust.swapped[1].trustScore.confidence

\* an analysis that is neither even nor certain, scored both ways
C21_Witness ==
    /\ trust # <<>>
    /\ trust.p = 13
    /\ trust.asGiven # <<>> /\ trust.swapped # <<>>
    /\ trust.asGiven[1].trustScore.confidence = 87
    /\ trust.asGiven[1].trustScore.score = 87
    /\ trust.swapped[1].trustScore.score = 13

(***************************************************************************)
(* Upload validation                                                       *)
(***************************************************************************)
\* C22: a buffer longer than maxFileSize fails validation whatever its
\* content and declared type: the call resolves with success false and null
\* contentHash, filePath and fileType, the content was never sniffed, no
\* hash was computed and no temporary file was written.
C22_OversizedRejected ==
    (upload # <<>> /\ upload.buffer.length > maxFileSize /\ upload.settled # "pending") =>
        /\ upload.settled = "resolved"
        /\ upload.result[1].success = FALSE
        /\ upload.result[1].contentHash = <<>>
        /\ upload.result[1].filePath = <<>>
        /\ upload.result[1].fileType = <<>>
        /\ upload.result[1].error = <<"File too large">>
        /\ upload.sniffed = 0
        /\ upload.hashed = 0
        /\ upload.written = 0

\* a PNG one byte over the limit, declared as a PNG, to be saved: refused
C22_Witness ==
    /\ upload # <<>>
    /\ upload.buffer = [length |-> maxFileSize + 1, content |-> "image/png"]
    /\ upload.originalMimeType = "image/png"
    /\ upload.saveFile
    /\ upload.settled = "resolved"
    /\ upload.result[1].success = FALSE

(***************************************************************************)
(* The ledger read path                                                    *)
(***************************************************************************)
\* C23: a read by id or by hash never raises: it resolves with null when
\* the contract is not initialized, when the query fails and when the
\* ledger holds no such record (id out of range, hash without history),
\* and with a record exactly when the ledger answered with one, which is
\* then the ledger's entry of that id, asked for by that id or hash.
C23_ReadNeverRaises ==
    (reader # <<>> /\ reader.last # <<>>) =>
        LET r == reader.last[1] IN
        /\ r.settled = "resolved"
        /\ (r.value = <<>>) <=> (~reader.contract \/ ~r.queryOk \/ r.view.reverted)
        /\ (r.fn = "getVerificationById" /\ r.arg >= Len(verifications)) => r.value = <<>>
        /\ (r.fn = "getVerificationByHash" /\ contentHistory[r.arg] = <<>>) => r.value = <<>>
        /\ r.value # <<>> =>
              /\ r.value[1].id < Len(verifications)
              /\ r.value[1] = toRecord(verifications[r.value[1].id + 1])
              /\ r.fn = "getVerificationById" => r.value[1].id = r.arg
              /\ r.fn = "getVerificationByHash" => r.value[1].contentHash = r.arg

\* with the contract set and the query through, a hash the ledger never
\* recorded is read as null while the ledger holds another hash's entry
C23_Witness ==
    /\ reader # <<>> /\ reader.last # <<>>
    /\ reader.contract
    /\ reader.last[1].fn = "getVerificationByHash"
    /\ reader.last[1].queryOk
    /\ contentHistory[reader.last[1].arg] = <<>>
    /\ Len(verifications) > 0
    /\ reader.last[1].value = <<>>

(***************************************************************************)
(* The verification UI                                                     *)
(***************************************************************************)
\* C30: at most one startVerification call is under way at any time, and
\* a result shown in status 'complete' is that of the file now selected.
C30_SingleFlight ==
    ui # <<>> =>
        /\ Cardinality(InFlight) <= 1
        /\ ui.status = "complete" =>
              /\ ui.result # <<>>
              /\ ui.selectedFile # <<>>
              /\ ui.result[1].of = ui.selectedFile[1]

====
